---- MODULE Spec2Model ----
(***************************************************************************)
(* Read-side query layer of the v0 miner actor state adapter               *)
(* (chain/actors/builtin/miner/v0.go):                                     *)
(*   - state0.GetSectorExpiration : nested traversal                       *)
(*       deadlines -> partitions -> expiration queue, with a sentinel      *)
(*       "stop" error used for early exit;                                 *)
(*   - state0.LoadSectorsFromSet  : filtered read-only view of the sector  *)
(*       array (adt.ProxyArray with GetFunc / ForEachFunc);                *)
(*   - state0.DeadlinesChanged, deadline0.PartitionsChanged.               *)
(* Bitfields are sets of sector numbers, AMT arrays are functions from     *)
(* their keys, Go errors are strings ("nil" is the nil error), a Go        *)
(* pointer result is a sequence of length 0 (nil) or 1.                    *)
(***************************************************************************)
EXTENDS Integers, Sequences, FiniteSets

VARIABLES
    num,        \* GetSectorExpiration: the queried sector number
    deadlines,  \* the snapshot: deadline index -> partition index -> partition
    pc,         \* position of the running operation
    dlIdx,      \* cursor of dls.ForEach
    partIdx,    \* cursor of partitions.ForEach
    epoch,      \* cursor of q.ForEach (next candidate key)
    out,        \* the local `out SectorExpiration`
    err,        \* the local `err` after dls.ForEach returned
    ret,        \* what the operation returned: [val, err]
    visited,    \* history: one entry per callback invocation, in order
    failed,     \* history: the error a collaborator call produced ("nil" if none)
    sectors,    \* LoadSectorsFromSet: underlying array s.State.Sectors, index -> value
    filter,     \* LoadSectorsFromSet: <<>> (nil filter) or <<bitfield>>
    filterOut,  \* LoadSectorsFromSet: polarity flag
    cursor,     \* ForEachFunc: next index of the underlying array to look at
    seen,       \* history: indices handed to the visitor, in order
    gets,       \* history: the a.Get calls made by GetFunc, with their results
    got,        \* what LoadSectorsFromSet / GetFunc / ForEachFunc returned
    sA, sB,     \* DeadlinesChanged: receiver state and `other`
    dA, dB,     \* PartitionsChanged: receiver deadline and `other`
    changed     \* what DeadlinesChanged / PartitionsChanged returned

expVars  == <<num, deadlines, dlIdx, partIdx, epoch, out, err, ret, visited, failed>>
viewVars == <<sectors, filter, filterOut, cursor, seen, gets, got>>
chgVars  == <<sA, sB, dA, dB, changed>>
vars     == <<pc, expVars, viewVars, chgVars>>

(***************************************************************************)
(* Bounds of the model.                                                    *)
(***************************************************************************)
NumDeadlines  == 2   \* deadlines 0 .. NumDeadlines-1
NumPartitions == 2   \* partitions 0 .. NumPartitions-1 in every deadline
MaxEpoch      == 2   \* expiration queue keys 0 .. MaxEpoch
MaxMembers    == 3   \* bitfield memberships written into one snapshot
MaxIndex      == 2   \* sector array indices 0 .. MaxIndex
MaxCid        == 2   \* content identifiers 1 .. MaxCid

DeadlineIdxs  == 0 .. (NumDeadlines - 1)
PartitionIdxs == 0 .. (NumPartitions - 1)
Epochs        == 0 .. MaxEpoch
NoIdx         == 0 - 1   \* no index: a ForEach that has run out of keys

\* Sector numbers: the sectors snapshots hold, and the sectors queried
\* (42 was never allocated: no bitfield of any snapshot holds it).
Allocated  == {5}
SectorNums == Allocated \cup {42}

(***************************************************************************)
(* Errors.                                                                 *)
(***************************************************************************)
NoErr   == "nil"
stopErr == "stop"
Nil     == <<>>

ErrLoadDeadlines       == "LoadDeadlines"
ErrLoadDeadline        == "LoadDeadline"
ErrPartitionsArray     == "PartitionsArray"
ErrUnmarshal           == "Unmarshal"
ErrSectorsIsSet        == "Sectors.IsSet"
ErrTerminatedIsSet     == "Terminated.IsSet"
ErrLoadExpirationQueue == "LoadExpirationQueue"
ErrEarlyIsSet          == "EarlySectors.IsSet"
ErrOnTimeIsSet         == "OnTimeSectors.IsSet"

DeadlineFails   == {"none", "LoadDeadline", "PartitionsArray"}
PartitionFails  == {"none", "Unmarshal", "Sectors", "Terminated", "LoadExpirationQueue"}
ExpirationFails == {"none", "Unmarshal", "Early", "OnTime"}

(***************************************************************************)
(* Snapshots.  A snapshot is built from a set of membership facts          *)
(*   <<bitfield, deadline, partition, epoch, sector>>                      *)
(* with bitfield one of Sectors, Terminated, EarlySectors, OnTimeSectors.  *)
(* A partition's Terminated bitfield and the bitfields of its expiration   *)
(* queue only hold sectors of the partition's Sectors bitfield (terminated *)
(* sectors stay in Sectors, which is why the code tests Sectors first).    *)
(* Nothing else is assumed: a sector may sit in several partitions, in     *)
(* several sets of a queue, in both bitfields of one set, and a terminated *)
(* sector may keep queue entries.                                          *)
(***************************************************************************)
SectorFacts ==
    {<<"Sectors", d, p, 0, s>> :
        d \in DeadlineIdxs, p \in PartitionIdxs, s \in Allocated}

\* What else a snapshot may say of the sectors H puts into partitions.
FactsOf(H) ==
    {<<"Terminated", h[2], h[3], 0, h[5]>> : h \in H}
    \cup
    {<<b, h[2], h[3], k, h[5]>> :
        b \in {"EarlySectors", "OnTimeSectors"}, h \in H, k \in Epochs}

RECURSIVE SubsetsUpTo(_, _)
SubsetsUpTo(S, n) ==
    IF n = 0 THEN {{}}
    ELSE LET R == SubsetsUpTo(S, n - 1)
         IN  R \cup {r \cup {x} : r \in R, x \in S}

\* The sets of Sectors memberships of the snapshots.
HolderSets == SubsetsUpTo(SectorFacts, MaxMembers)

\* The fact sets of the snapshots that put H into partitions: at most
\* MaxMembers memberships in all.
FactSets(H) ==
    {H \cup G : G \in SubsetsUpTo(FactsOf(H), MaxMembers - Cardinality(H))}

Bits(F, b, d, p, k) ==
    {f[5] : f \in {g \in F : g[1] = b /\ g[2] = d /\ g[3] = p /\ g[4] = k}}

QueueKeys(F, d, p) ==
    {f[4] : f \in {g \in F : /\ g[1] \in {"EarlySectors", "OnTimeSectors"}
                             /\ g[2] = d /\ g[3] = p}}

Snapshot(F) ==
    [d \in DeadlineIdxs |->
        [p \in PartitionIdxs |->
            [Sectors           |-> Bits(F, "Sectors", d, p, 0),
             Terminated        |-> Bits(F, "Terminated", d, p, 0),
             ExpirationsEpochs |->
                [k \in QueueKeys(F, d, p) |->
                    [OnTimeSectors |-> Bits(F, "OnTimeSectors", d, p, k),
                     EarlySectors  |-> Bits(F, "EarlySectors", d, p, k)]]]]]

\* bitfield.IsSet
IsSet(bf, i) == i \in bf

\* The smallest key of an AMT at or after `from`, NoIdx when there is none.
NextKey(keys, from) ==
    IF \E k \in keys : k >= from
    THEN CHOOSE k \in keys : k >= from /\ \A j \in keys : j >= from => k <= j
    ELSE NoIdx

(***************************************************************************)
(* state0.GetSectorExpiration                                              *)
(***************************************************************************)
ZeroExpiration == [OnTime |-> 0, Early |-> 0]

\* Control token: the callback returns whatever the nested ForEach returns.
Descend == "ForEach"

\* One iteration of dls.ForEach: the deadline is loaded, then the callback
\* opens its partitions array.  `fail` names the collaborator call that fails
\* if it is reached.
DeadlineCallback(fail) ==
    IF fail = "LoadDeadline"
    THEN [res |-> ErrLoadDeadline, ops |-> <<"LoadDeadline">>]
    ELSE IF fail = "PartitionsArray"
    THEN [res |-> ErrPartitionsArray, ops |-> <<"LoadDeadline", "PartitionsArray">>]
    ELSE [res |-> Descend, ops |-> <<"LoadDeadline", "PartitionsArray">>]

\* PartitionCallback without the Terminated test.
PartitionCallback_NoTerminated(part, n, fail) ==
    IF fail = "Unmarshal"
    THEN [res |-> ErrUnmarshal, ops |-> <<"Unmarshal">>]
    ELSE IF fail = "Sectors"
    THEN [res |-> ErrSectorsIsSet, ops |-> <<"Unmarshal", "Sectors.IsSet">>]
    ELSE IF ~IsSet(part.Sectors, n)
    THEN [res |-> NoErr, ops |-> <<"Unmarshal", "Sectors.IsSet">>]
    ELSE IF fail = "LoadExpirationQueue"
    THEN [res |-> ErrLoadExpirationQueue,
          ops |-> <<"Unmarshal", "Sectors.IsSet", "LoadExpirationQueue">>]
    ELSE [res |-> Descend,
          ops |-> <<"Unmarshal", "Sectors.IsSet", "LoadExpirationQueue">>]

\* One iteration of partitions.ForEach: the partition is decoded into `part`,
\* then the callback tests Sectors, Terminated and loads the queue.
PartitionCallback(part, n, fail) ==
    IF fail = "Unmarshal"
    THEN [res |-> ErrUnmarshal, ops |-> <<"Unmarshal">>]
    ELSE IF fail = "Sectors"
    THEN [res |-> ErrSectorsIsSet, ops |-> <<"Unmarshal", "Sectors.IsSet">>]
    ELSE IF ~IsSet(part.Sectors, n)
    THEN [res |-> NoErr, ops |-> <<"Unmarshal", "Sectors.IsSet">>]
    ELSE IF fail = "Terminated"
    THEN [res |-> ErrTerminatedIsSet,
          ops |-> <<"Unmarshal", "Sectors.IsSet", "Terminated.IsSet">>]
    ELSE IF IsSet(part.Terminated, n)
    THEN [res |-> stopErr,
          ops |-> <<"Unmarshal", "Sectors.IsSet", "Terminated.IsSet">>]
    ELSE IF fail = "LoadExpirationQueue"
    THEN [res |-> ErrLoadExpirationQueue,
          ops |-> <<"Unmarshal", "Sectors.IsSet", "Terminated.IsSet",
                    "LoadExpirationQueue">>]
    ELSE [res |-> Descend,
          ops |-> <<"Unmarshal", "Sectors.IsSet", "Terminated.IsSet",
                    "LoadExpirationQueue">>]

\* ExpirationCallback variants: `early` is what the early branch does.
\*   "fall"  : records Early and falls through to the on-time test
\*   "stop"  : records Early and returns the stop signal
\*   "first" : records Early only when none is recorded yet
\* `stopOnTime` is whether an on-time match returns the stop signal.
ExpirationCallbackVariant(exp, k, o, n, fail, early, stopOnTime) ==
    LET isEarly == IsSet(exp.EarlySectors, n)
        o1 == IF isEarly /\ (early # "first" \/ o.Early = 0)
              THEN [o EXCEPT !.Early = k] ELSE o
        e1 == <<"Unmarshal", "EarlySectors.IsSet">>
                 \o (IF isEarly THEN <<"out.Early">> ELSE <<>>)
    IN  IF fail = "Unmarshal"
        THEN [out |-> o, res |-> ErrUnmarshal, ops |-> <<"Unmarshal">>]
        ELSE IF fail = "Early"
        THEN [out |-> o, res |-> ErrEarlyIsSet,
              ops |-> <<"Unmarshal", "EarlySectors.IsSet">>]
        ELSE IF isEarly /\ early = "stop"
        THEN [out |-> o1, res |-> stopErr, ops |-> e1]
        ELSE IF isEarly /\ early # "fall"
        THEN [out |-> o1, res |-> NoErr, ops |-> e1]
        ELSE IF fail = "OnTime"
        THEN [out |-> o1, res |-> ErrOnTimeIsSet,
              ops |-> e1 \o <<"OnTimeSectors.IsSet">>]
        ELSE IF IsSet(exp.OnTimeSectors, n)
        THEN [out |-> [o1 EXCEPT !.OnTime = k],
              res |-> IF stopOnTime THEN stopErr ELSE NoErr,
              ops |-> e1 \o <<"OnTimeSectors.IsSet", "out.OnTime">>]
        ELSE [out |-> o1, res |-> NoErr, ops |-> e1 \o <<"OnTimeSectors.IsSet">>]

ExpirationCallback_FallThrough(exp, k, o, n, fail) ==
    ExpirationCallbackVariant(exp, k, o, n, fail, "fall", TRUE)
ExpirationCallback_StopOnEarly(exp, k, o, n, fail) ==
    ExpirationCallbackVariant(exp, k, o, n, fail, "stop", TRUE)
ExpirationCallback_FirstEarly(exp, k, o, n, fail) ==
    ExpirationCallbackVariant(exp, k, o, n, fail, "first", TRUE)
ExpirationCallback_NoStop(exp, k, o, n, fail) ==
    ExpirationCallbackVariant(exp, k, o, n, fail, "last", FALSE)

\* One iteration of q.ForEach: the set is decoded into `exp`, then the
\* callback tests EarlySectors and, only when that test is negative,
\* OnTimeSectors.  o is the value of `out` before the call.
ExpirationCallback(exp, k, o, n, fail) ==
    IF fail = "Unmarshal"
    THEN [out |-> o, res |-> ErrUnmarshal, ops |-> <<"Unmarshal">>]
    ELSE IF fail = "Early"
    THEN [out |-> o, res |-> ErrEarlyIsSet,
          ops |-> <<"Unmarshal", "EarlySectors.IsSet">>]
    ELSE IF IsSet(exp.EarlySectors, n)
    THEN [out |-> [o EXCEPT !.Early = k], res |-> NoErr,
          ops |-> <<"Unmarshal", "EarlySectors.IsSet", "out.Early">>]
    ELSE IF fail = "OnTime"
    THEN [out |-> o, res |-> ErrOnTimeIsSet,
          ops |-> <<"Unmarshal", "EarlySectors.IsSet", "OnTimeSectors.IsSet">>]
    ELSE IF IsSet(exp.OnTimeSectors, n)
    THEN [out |-> [o EXCEPT !.OnTime = k], res |-> stopErr,
          ops |-> <<"Unmarshal", "EarlySectors.IsSet", "OnTimeSectors.IsSet",
                    "out.OnTime">>]
    ELSE [out |-> o, res |-> NoErr,
          ops |-> <<"Unmarshal", "EarlySectors.IsSet", "OnTimeSectors.IsSet">>]

\* Result without the conversion of the stop signal to nil.
Result_LeakStop(o, e) ==
    IF e # NoErr THEN [val |-> Nil, err |-> e]
    ELSE IF o.Early = 0 /\ o.OnTime = 0 THEN [val |-> Nil, err |-> NoErr]
    ELSE [val |-> <<o>>, err |-> NoErr]

\* Result without the test for an empty record.
Result_NoZeroCheck(o, e) ==
    LET e2 == IF e = stopErr THEN NoErr ELSE e
    IN  IF e2 # NoErr THEN [val |-> Nil, err |-> e2]
        ELSE [val |-> <<o>>, err |-> NoErr]

\* The tail of GetSectorExpiration, after dls.ForEach returned e.
Result(o, e) ==
    LET e2 == IF e = stopErr THEN NoErr ELSE e
    IN  IF e2 # NoErr THEN [val |-> Nil, err |-> e2]
        ELSE IF o.Early = 0 /\ o.OnTime = 0 THEN [val |-> Nil, err |-> NoErr]
        ELSE [val |-> <<o>>, err |-> NoErr]

Visit(d, p, k, r) == [d |-> d, p |-> p, k |-> k, ops |-> r.ops, res |-> r.res]

\* dls.ForEach returned e (a callback's non-nil error, returned unchanged by
\* every enclosing ForEach, or nil after the last deadline) with `out` = o:
\* the tail of GetSectorExpiration runs and the method returns.
Finish(o, e) ==
    /\ err' = e
    /\ ret' = Result(o, e)
    /\ pc' = "Done"
    /\ failed' = IF e \in {NoErr, stopErr} THEN failed ELSE e

LoadDeadlines ==
    /\ pc = "LoadDeadlines"
    /\ \/ /\ pc' = "ForEachDeadline"
          /\ UNCHANGED <<ret, failed>>
       \/ /\ ret' = [val |-> Nil, err |-> ErrLoadDeadlines]
          /\ failed' = ErrLoadDeadlines
          /\ pc' = "Done"
    /\ UNCHANGED <<num, deadlines, dlIdx, partIdx, epoch, out, err, visited>>
    /\ UNCHANGED <<viewVars, chgVars>>

ForEachDeadline ==
    /\ pc = "ForEachDeadline"
    /\ \/ /\ dlIdx = NumDeadlines
          /\ Finish(out, NoErr)
          /\ UNCHANGED <<partIdx, visited>>
       \/ /\ dlIdx < NumDeadlines
          /\ \E fail \in DeadlineFails :
                LET r == DeadlineCallback(fail)
                IN  /\ visited' = Append(visited, Visit(dlIdx, NoIdx, NoIdx, r))
                    /\ \/ /\ r.res = Descend
                          /\ partIdx' = 0
                          /\ pc' = "ForEachPartition"
                          /\ UNCHANGED <<err, ret, failed>>
                       \/ /\ r.res # Descend
                          /\ Finish(out, r.res)
                          /\ UNCHANGED partIdx
    /\ UNCHANGED <<num, deadlines, dlIdx, epoch, out>>
    /\ UNCHANGED <<viewVars, chgVars>>

ForEachPartition ==
    /\ pc = "ForEachPartition"
    /\ \/ /\ partIdx = NumPartitions
          /\ dlIdx' = dlIdx + 1
          /\ pc' = "ForEachDeadline"
          /\ UNCHANGED <<partIdx, epoch, err, ret, visited, failed>>
       \/ /\ partIdx < NumPartitions
          /\ \E fail \in PartitionFails :
                LET r == PartitionCallback(deadlines[dlIdx][partIdx], num, fail)
                IN  /\ visited' = Append(visited, Visit(dlIdx, partIdx, NoIdx, r))
                    /\ \/ /\ r.res = Descend
                          /\ epoch' = 0
                          /\ pc' = "ForEachExpiration"
                          /\ UNCHANGED <<partIdx, err, ret, failed>>
                       \/ /\ r.res = NoErr
                          /\ partIdx' = partIdx + 1
                          /\ UNCHANGED <<pc, epoch, err, ret, failed>>
                       \/ /\ r.res \notin {Descend, NoErr}
                          /\ Finish(out, r.res)
                          /\ UNCHANGED <<partIdx, epoch>>
          /\ UNCHANGED dlIdx
    /\ UNCHANGED <<num, deadlines, out>>
    /\ UNCHANGED <<viewVars, chgVars>>

ForEachExpiration ==
    /\ pc = "ForEachExpiration"
    /\ LET q == deadlines[dlIdx][partIdx].ExpirationsEpochs
           k == NextKey(DOMAIN q, epoch)
       IN  \/ /\ k = NoIdx
              /\ partIdx' = partIdx + 1
              /\ pc' = "ForEachPartition"
              /\ UNCHANGED <<epoch, out, err, ret, visited, failed>>
           \/ /\ k # NoIdx
              /\ \E fail \in ExpirationFails :
                    LET r == ExpirationCallback(q[k], k, out, num, fail)
                    IN  /\ visited' = Append(visited, Visit(dlIdx, partIdx, k, r))
                        /\ out' = r.out
                        /\ \/ /\ r.res = NoErr
                              /\ epoch' = k + 1
                              /\ UNCHANGED <<pc, err, ret, failed>>
                           \/ /\ r.res # NoErr
                              /\ Finish(r.out, r.res)
                              /\ UNCHANGED epoch
              /\ UNCHANGED partIdx
    /\ UNCHANGED <<num, deadlines, dlIdx>>
    /\ UNCHANGED <<viewVars, chgVars>>

IdleView == /\ sectors = <<>> /\ filter = <<>> /\ filterOut = FALSE
            /\ cursor = 0 /\ seen = <<>> /\ gets = <<>>
            /\ got = [op |-> "none", idx |-> NoIdx, found |-> FALSE,
                      val |-> Nil, err |-> NoErr]
IdleChanged == /\ sA = <<>> /\ sB = <<>> /\ dA = <<>> /\ dB = <<>>
               /\ changed = FALSE
IdleExp == /\ num = 0 /\ deadlines = <<>> /\ dlIdx = 0 /\ partIdx = 0
           /\ epoch = 0 /\ out = ZeroExpiration /\ err = NoErr
           /\ ret = [val |-> Nil, err |-> NoErr]
           /\ visited = <<>> /\ failed = NoErr

Init ==
    /\ num \in SectorNums
    /\ \E H \in HolderSets : \E F \in FactSets(H) : deadlines = Snapshot(F)
    /\ pc = "LoadDeadlines"
    /\ dlIdx = 0 /\ partIdx = 0 /\ epoch = 0
    /\ out = ZeroExpiration
    /\ err = NoErr
    /\ ret = [val |-> Nil, err |-> NoErr]
    /\ visited = <<>>
    /\ failed = NoErr
    /\ IdleView
    /\ IdleChanged

Next ==
    \/ LoadDeadlines
    \/ ForEachDeadline
    \/ ForEachPartition
    \/ ForEachExpiration

Spec == Init /\ [][Next]_vars

(***************************************************************************)
(* Properties of GetSectorExpiration (specification Spec).                 *)
(***************************************************************************)
Done  == pc = "Done"
Clean == failed = NoErr

Part(h)     == deadlines[h[1]][h[2]]
Queue(h)    == Part(h).ExpirationsEpochs
Holders     == {h \in DeadlineIdxs \X PartitionIdxs : num \in Part(h).Sectors}
EarlyAt(h)  == {k \in DOMAIN Queue(h) : num \in Queue(h)[k].EarlySectors}
OnTimeAt(h) == {k \in DOMAIN Queue(h) : num \in Queue(h)[k].OnTimeSectors}
Max(S)      == CHOOSE x \in S : \A y \in S : y <= x
Min(S)      == CHOOSE x \in S : \A y \in S : x <= y
NotFound    == [val |-> Nil, err |-> NoErr]
Found(t, e) == [val |-> <<[OnTime |-> t, Early |-> e]>>, err |-> NoErr]

Ran(v, op)   == \E j \in DOMAIN v.ops : v.ops[j] = op
IsSetVisit(v)  == v.k # NoIdx
IsPartVisit(v) == v.p # NoIdx /\ v.k = NoIdx
SetOf(v)     == Queue(<<v.d, v.p>>)[v.k]

\* C2: when num is in the Sectors bitfield of at most one partition and in
\* that partition's Terminated bitfield, a query without storage error
\* returns not-found (nil, nil), whatever that partition's queue contains.
C2_TerminatedNotFound ==
    (/\ Done /\ Clean
     /\ Cardinality(Holders) <= 1
     /\ \A h \in Holders : num \in Part(h).Terminated)
    => ret = NotFound

C2_Witness ==
    /\ Done /\ Clean
    /\ \E h \in Holders :
          /\ Holders = {h}
          /\ num \in Part(h).Terminated
          /\ \E k \in OnTimeAt(h) : k > 0
    /\ ret = NotFound

\* C3: when num is held by exactly one partition, not terminated there, and
\* that partition's queue holds num on time in exactly one set, at t > 0, and
\* early either nowhere or in exactly one other set at e with 0 < e < t, the
\* query returns {OnTime: t, Early: e} (Early 0 without an early record),
\* whichever deadline and partition hold the sector.
C3_ExpirationOfLiveSector ==
    \A h \in Holders : \A t \in Epochs :
        (/\ Done /\ Clean
         /\ Holders = {h}
         /\ num \notin Part(h).Terminated
         /\ t > 0 /\ OnTimeAt(h) = {t}
         /\ \/ EarlyAt(h) = {}
            \/ \E e \in Epochs : EarlyAt(h) = {e} /\ 0 < e /\ e < t)
        => ret = Found(t, IF EarlyAt(h) = {} THEN 0 ELSE Max(EarlyAt(h)))

C3_Witness ==
    /\ Done /\ Clean
    /\ Holders = {<<1, 1>>}
    /\ num \notin Part(<<1, 1>>).Terminated
    /\ OnTimeAt(<<1, 1>>) = {2} /\ EarlyAt(<<1, 1>>) = {1}
    /\ ret = Found(2, 1)

\* C4: the query returns a non-nil error exactly when a collaborator call
\* made during the traversal failed; the error returned is that call's
\* error and the result is nil whatever had been recorded in `out`; the
\* internal stop signal is never returned.
C4_ErrorsSurfaceStopDoesNot ==
    /\ ret.err # stopErr
    /\ Done => (ret.err # NoErr <=> failed # NoErr)
    /\ (Done /\ failed # NoErr) => ret = [val |-> Nil, err |-> failed]
    /\ (failed # NoErr /\ visited # <<>>) =>
          LET v == visited[Len(visited)]
          IN  v.res = failed /\ v.ops[Len(v.ops)] = failed

C4_Witness ==
    /\ Done
    /\ failed = ErrOnTimeIsSet
    /\ out.Early # 0
    /\ ret = [val |-> Nil, err |-> ErrOnTimeIsSet]

C4_WitnessStop ==
    /\ Done /\ Clean
    /\ err = stopErr
    /\ ret.err = NoErr

\* C6: callbacks run in ascending (deadline, partition, epoch) order, and a
\* visit at which a stop condition fires (a partition with num in Sectors
\* and Terminated, or a set in which the on-time test finds num) is the last
\* visit of the query, which has then returned.
Before(a, b) ==
    \/ a.d < b.d
    \/ a.d = b.d /\ a.p < b.p
    \/ a.d = b.d /\ a.p = b.p /\ a.k < b.k

StopFires(v) ==
    \/ /\ IsPartVisit(v)
       /\ Ran(v, "Terminated.IsSet")
       /\ num \in Part(<<v.d, v.p>>).Terminated
    \/ /\ IsSetVisit(v)
       /\ Ran(v, "OnTimeSectors.IsSet")
       /\ num \in SetOf(v).OnTimeSectors

C6_OrderedAndStopsAtOnce ==
    /\ \A i \in 1 .. (Len(visited) - 1) : Before(visited[i], visited[i + 1])
    /\ \A i \in DOMAIN visited :
          StopFires(visited[i]) => (i = Len(visited) /\ Done)

C6_Witness ==
    /\ Done /\ Clean
    /\ Holders = {<<0, 0>>, <<1, 1>>}
    /\ Len(visited) = 3
    /\ LET v == visited[Len(visited)]
       IN  v.d = 0 /\ v.p = 0 /\ IsSetVisit(v) /\ StopFires(v)

C6_WitnessTerminated ==
    /\ Done /\ Clean
    /\ Holders = {<<0, 0>>, <<0, 1>>}
    /\ Len(visited) = 2
    /\ LET v == visited[Len(visited)]
       IN  v.d = 0 /\ v.p = 0 /\ IsPartVisit(v) /\ StopFires(v)

\* C7 as stated: a set holding num in EarlySectors gets Early recorded and
\* its OnTimeSectors tested too; when num is in both, the result carries
\* Early = OnTime = k and the traversal ends at that set.
C7_Original ==
    \A i \in DOMAIN visited :
        LET v == visited[i]
        IN  (/\ IsSetVisit(v)
             /\ Ran(v, "EarlySectors.IsSet") /\ v.res # ErrEarlyIsSet
             /\ num \in SetOf(v).EarlySectors)
            => /\ Ran(v, "out.Early")
               /\ Ran(v, "OnTimeSectors.IsSet")
               /\ (num \in SetOf(v).OnTimeSectors /\ v.res # ErrOnTimeIsSet)
                     => /\ i = Len(visited)
                        /\ Done => ret = Found(v.k, v.k)

\* C7 (amended): a set at epoch k holding num in EarlySectors gets Early = k
\* recorded, its OnTimeSectors is not tested, and the scan goes on to the
\* next set; OnTime is never taken from a set holding num in EarlySectors
\* and the stop signal never fires there.
C7_EarlySkipsOnTimeTest ==
    \A i \in DOMAIN visited :
        LET v == visited[i]
        IN  /\ (/\ IsSetVisit(v)
                /\ Ran(v, "EarlySectors.IsSet") /\ v.res # ErrEarlyIsSet
                /\ num \in SetOf(v).EarlySectors)
               => /\ Ran(v, "out.Early")
                  /\ ~Ran(v, "OnTimeSectors.IsSet")
                  /\ v.res = NoErr
                  /\ i = Len(visited) => (out.Early = v.k /\ (Done \/ epoch = v.k + 1))
            /\ (IsSetVisit(v) /\ (Ran(v, "out.OnTime") \/ v.res = stopErr))
               => num \notin SetOf(v).EarlySectors

C7_Witness ==
    /\ Done /\ Clean
    /\ Holders = {<<0, 1>>}
    /\ EarlyAt(<<0, 1>>) = {1} /\ OnTimeAt(<<0, 1>>) = {1}
    /\ ret = Found(0, 1)

\* The matches the traversal recorded, from the log of visits.
EarlyHits  == {i \in DOMAIN visited : Ran(visited[i], "out.Early")}
OnTimeHits == {i \in DOMAIN visited : Ran(visited[i], "out.OnTime")}
LastEarly  == IF EarlyHits = {} THEN 0 ELSE visited[Max(EarlyHits)].k
LastOnTime == IF OnTimeHits = {} THEN 0 ELSE visited[Max(OnTimeHits)].k

\* C8 as stated: without storage errors the query returns not-found exactly
\* when the traversal recorded no match; a sector in no Sectors bitfield is
\* not found; a recorded match at any key epoch, 0 included, gives a non-nil
\* record carrying that epoch.
C8_Original ==
    (Done /\ Clean) =>
        /\ ret.val = Nil <=> (EarlyHits = {} /\ OnTimeHits = {})
        /\ Holders = {} => ret = NotFound
        /\ EarlyHits # {} => (ret.val # Nil /\ ret.val[1].Early = LastEarly)
        /\ OnTimeHits # {} => (ret.val # Nil /\ ret.val[1].OnTime = LastOnTime)

\* C8 (amended): without storage errors the query returns not-found exactly
\* when the last recorded early epoch and the recorded on-time epoch are
\* both 0 or absent; a sector in no Sectors bitfield is not found; otherwise
\* the result is a non-nil record carrying the last recorded early epoch and
\* the recorded on-time epoch (0 for a slot never recorded).
C8_NotFoundIffNoNonZeroEpoch ==
    (Done /\ Clean) =>
        /\ ret.val = Nil <=> (LastEarly = 0 /\ LastOnTime = 0)
        /\ Holders = {} => ret = NotFound
        /\ ret.val # Nil => ret = Found(LastOnTime, LastEarly)
        /\ ret.err = NoErr

C8_Witness ==
    /\ Done /\ Clean
    /\ OnTimeHits # {} /\ LastOnTime = 0
    /\ EarlyHits = {}
    /\ ret = NotFound

\* C10: for a sector held by exactly one partition, not terminated there,
\* whose queue has no set holding it both early and on time, the Early
\* epoch of the query is the greatest epoch of a set holding it early below
\* the first set holding it on time (over the whole queue when it has no
\* on-time record), and 0 when there is none: an early record after the
\* on-time set is not reflected and a later early record overwrites an
\* earlier one.
ExpectedEarly(h) ==
    LET E == IF OnTimeAt(h) = {} THEN EarlyAt(h)
             ELSE {e \in EarlyAt(h) : e < Min(OnTimeAt(h))}
    IN  IF E = {} THEN 0 ELSE Max(E)

C10_EarlyIsLastBeforeOnTime ==
    \A h \in Holders :
        (/\ Done /\ Clean
         /\ Holders = {h}
         /\ num \notin Part(h).Terminated
         /\ EarlyAt(h) \cap OnTimeAt(h) = {})
        => /\ out.Early = ExpectedEarly(h)
           /\ ret.val # Nil => ret.val[1].Early = ExpectedEarly(h)

C10_Witness ==
    /\ Done /\ Clean
    /\ Holders = {<<1, 0>>}
    /\ num \notin Part(<<1, 0>>).Terminated
    /\ EarlyAt(<<1, 0>>) = {1, 2} /\ OnTimeAt(<<1, 0>>) = {}
    /\ ret = Found(0, 2)

C10_WitnessLateEarly ==
    /\ Done /\ Clean
    /\ Holders = {<<1, 0>>}
    /\ EarlyAt(<<1, 0>>) = {2} /\ OnTimeAt(<<1, 0>>) = {1}
    /\ ret = Found(1, 0)

(***************************************************************************)
(* state0.DeadlinesChanged, deadline0.PartitionsChanged                    *)
(* (specification SpecChanged).  A state or deadline value is its schema   *)
(* version and the content identifier of the root it is compared on; two   *)
(* roots are structurally equal exactly when their identifiers are.        *)
(***************************************************************************)
Cids     == 1 .. MaxCid
Versions == {"v0", "v2"}

\* cid.Cid.Equals
Equals(a, b) == a = b

DeadlinesChanged(s, other) ==
    IF other.version # "v0"
    THEN TRUE    \* treat an upgrade as a change, always
    ELSE Equals(s.Deadlines, other.Deadlines)

PartitionsChanged(d, other) ==
    IF other.version # "v0"
    THEN TRUE    \* treat an upgrade as a change, always
    ELSE Equals(d.Partitions, other.Partitions)

CallDeadlinesChanged ==
    /\ pc = "Compare"
    /\ changed' = DeadlinesChanged(sA, sB)
    /\ pc' = "DeadlinesChanged"
    /\ UNCHANGED <<sA, sB, dA, dB, expVars, viewVars>>

CallPartitionsChanged ==
    /\ pc = "Compare"
    /\ changed' = PartitionsChanged(dA, dB)
    /\ pc' = "PartitionsChanged"
    /\ UNCHANGED <<sA, sB, dA, dB, expVars, viewVars>>

InitChanged ==
    /\ pc = "Compare"
    /\ sA \in [version : {"v0"}, Deadlines : Cids]
    /\ sB \in [version : Versions, Deadlines : Cids]
    /\ dA \in [version : {"v0"}, Partitions : Cids]
    /\ dB \in [version : Versions, Partitions : Cids]
    /\ changed = FALSE
    /\ IdleExp
    /\ IdleView

NextChanged == CallDeadlinesChanged \/ CallPartitionsChanged

SpecChanged == InitChanged /\ [][NextChanged]_vars

\* C1: DeadlinesChanged(other) is true exactly when `other` is of another
\* schema version or the two Deadlines roots differ; it is false for two
\* state0 values with equal roots, s.DeadlinesChanged(s) included.
C1_DeadlinesChangedIffDifferent ==
    pc = "DeadlinesChanged" =>
        (changed <=> (sB.version # "v0" \/ sA.Deadlines # sB.Deadlines))

\* C9: PartitionsChanged(other) is true exactly when `other` is of another
\* schema version or the two Partitions roots differ; it is false for two
\* deadline0 values with equal roots, d.PartitionsChanged(d) included.
C9_PartitionsChangedIffDifferent ==
    pc = "PartitionsChanged" =>
        (changed <=> (dB.version # "v0" \/ dA.Partitions # dB.Partitions))

(***************************************************************************)
(* state0.LoadSectorsFromSet (specification SpecView).                     *)
(***************************************************************************)
Indexes == 0 .. MaxIndex

ErrAsArray == "AsArray"
ErrFilter  == "filter check error"
ErrGet     == "a.Get"
ErrVisitor == "fn"

\* incl without the polarity flag: an index is included when it is set.
incl_IgnoreFilterOut(i, fltr, fOut, fail) ==
    IF fltr = Nil THEN [include |-> TRUE, err |-> NoErr]
    ELSE IF fail THEN [include |-> FALSE, err |-> ErrFilter]
    ELSE [include |-> IsSet(fltr[1], i), err |-> NoErr]

\* The closure incl: `fail` is whether filter.IsSet fails if it is called.
incl(i, fltr, fOut, fail) ==
    IF fltr = Nil THEN [include |-> TRUE, err |-> NoErr]
    ELSE IF fail THEN [include |-> FALSE, err |-> ErrFilter]
    ELSE IF IsSet(fltr[1], i) = fOut
    THEN [include |-> FALSE, err |-> NoErr]
    ELSE [include |-> TRUE, err |-> NoErr]

\* adt0.Array.Get on the underlying array.
ArrayGet(a, idx, fail) ==
    IF fail THEN [idx |-> idx, found |-> FALSE, val |-> Nil, err |-> ErrGet]
    ELSE IF idx \in DOMAIN a
    THEN [idx |-> idx, found |-> TRUE, val |-> <<a[idx]>>, err |-> NoErr]
    ELSE [idx |-> idx, found |-> FALSE, val |-> Nil, err |-> NoErr]

\* ProxyArray.GetFunc: the result and the a.Get calls it made.
GetFunc(a, fltr, fOut, idx, filterFail, getFail) ==
    LET i == incl(idx, fltr, fOut, filterFail)
        g == ArrayGet(a, idx, getFail)
    IN  IF i.err # NoErr
        THEN [found |-> FALSE, val |-> Nil, err |-> i.err, calls |-> <<>>]
        ELSE IF ~i.include
        THEN [found |-> FALSE, val |-> Nil, err |-> NoErr, calls |-> <<>>]
        ELSE [found |-> g.found, val |-> g.val, err |-> g.err, calls |-> <<g>>]

\* The callback ProxyArray.ForEachFunc hands to a.ForEach, at index i:
\* whether fn is invoked and what the callback returns (fnErr is what fn
\* returns if it is invoked).
ForEachCallback(fltr, fOut, i, filterFail, fnErr) ==
    LET c == incl(i, fltr, fOut, filterFail)
    IN  IF c.err # NoErr THEN [visit |-> FALSE, err |-> c.err]
        ELSE IF ~c.include THEN [visit |-> FALSE, err |-> NoErr]
        ELSE [visit |-> TRUE, err |-> fnErr]

Got(op, idx, found, val, e) ==
    [op |-> op, idx |-> idx, found |-> found, val |-> val, err |-> e]

LoadSectorsFromSet ==
    /\ pc = "LoadSectorsFromSet"
    /\ \/ /\ pc' = "View"
          /\ UNCHANGED got
       \/ /\ got' = Got("LoadSectorsFromSet", NoIdx, FALSE, Nil, ErrAsArray)
          /\ pc' = "Done"
    /\ UNCHANGED <<sectors, filter, filterOut, cursor, seen, gets>>
    /\ UNCHANGED <<expVars, chgVars>>

Get ==
    /\ pc = "View"
    /\ \E idx \in Indexes, filterFail \in BOOLEAN, getFail \in BOOLEAN :
          LET r == GetFunc(sectors, filter, filterOut, idx, filterFail, getFail)
          IN  /\ got' = Got("Get", idx, r.found, r.val, r.err)
              /\ gets' = gets \o r.calls
    /\ pc' = "Done"
    /\ UNCHANGED <<sectors, filter, filterOut, cursor, seen>>
    /\ UNCHANGED <<expVars, chgVars>>

ForEachStart ==
    /\ pc = "View"
    /\ pc' = "ForEach"
    /\ cursor' = 0
    /\ UNCHANGED <<sectors, filter, filterOut, seen, gets, got>>
    /\ UNCHANGED <<expVars, chgVars>>

\* One iteration of a.ForEach, or its end.
ForEachStep ==
    /\ pc = "ForEach"
    /\ LET i == NextKey(DOMAIN sectors, cursor)
       IN  \/ /\ i = NoIdx
              /\ got' = Got("ForEach", NoIdx, FALSE, Nil, NoErr)
              /\ pc' = "Done"
              /\ UNCHANGED <<cursor, seen>>
           \/ /\ i # NoIdx
              /\ \E filterFail \in BOOLEAN, fnErr \in {NoErr, ErrVisitor} :
                    LET r == ForEachCallback(filter, filterOut, i, filterFail, fnErr)
                    IN  /\ seen' = IF r.visit THEN Append(seen, i) ELSE seen
                        /\ \/ /\ r.err = NoErr
                              /\ cursor' = i + 1
                              /\ UNCHANGED <<pc, got>>
                           \/ /\ r.err # NoErr
                              /\ cursor' = i
                              /\ got' = Got("ForEach", i, FALSE, Nil, r.err)
                              /\ pc' = "Done"
    /\ UNCHANGED <<sectors, filter, filterOut, gets>>
    /\ UNCHANGED <<expVars, chgVars>>

InitView ==
    /\ pc = "LoadSectorsFromSet"
    /\ \E K \in SUBSET Indexes : sectors = [i \in K |-> [SectorNumber |-> i]]
    /\ filter \in {Nil} \cup {<<S>> : S \in SUBSET Indexes}
    /\ filterOut \in BOOLEAN
    /\ cursor = 0 /\ seen = <<>> /\ gets = <<>>
    /\ got = Got("none", NoIdx, FALSE, Nil, NoErr)
    /\ IdleExp
    /\ IdleChanged

NextView == LoadSectorsFromSet \/ Get \/ ForEachStart \/ ForEachStep

SpecView == InitView /\ [][NextView]_vars

\* The indices the view shows: p(i) of the claim, as a set.
Shown ==
    IF filter = Nil THEN Indexes
    ELSE IF filterOut THEN Indexes \ filter[1]
    ELSE filter[1]

Visitable == DOMAIN sectors \cap Shown
SeenSet   == {seen[j] : j \in DOMAIN seen}

\* C5: ForEach hands the visitor exactly the indices that are in the array
\* and shown by the filter, in ascending order, each once, and stops at the
\* first visitor error, which it returns; Get of an index the filter hides
\* is (false, nil) without a call of the array, Get of a shown index is what
\* the array's Get returns.
C5_FilteredView ==
    /\ \A j \in 1 .. (Len(seen) - 1) : seen[j] < seen[j + 1]
    /\ pc = "ForEach" => SeenSet = {i \in Visitable : i < cursor}
    /\ (pc = "Done" /\ got.op = "ForEach") =>
          /\ got.err = NoErr => SeenSet = Visitable
          /\ got.err = ErrVisitor =>
                /\ seen # <<>> /\ seen[Len(seen)] = got.idx
                /\ SeenSet = {i \in Visitable : i <= got.idx}
          /\ got.err = ErrFilter => SeenSet = {i \in Visitable : i < got.idx}
    /\ (pc = "Done" /\ got.op = "Get" /\ got.err # ErrFilter) =>
          IF got.idx \notin Shown
          THEN got.found = FALSE /\ got.val = Nil /\ got.err = NoErr /\ gets = <<>>
          ELSE /\ Len(gets) = 1
               /\ gets[1] = [idx |-> got.idx, found |-> got.found,
                             val |-> got.val, err |-> got.err]
               /\ got.err = NoErr =>
                     /\ got.found <=> got.idx \in DOMAIN sectors
                     /\ got.found => got.val = <<sectors[got.idx]>>

C5_Witness ==
    /\ pc = "Done" /\ got.op = "ForEach" /\ got.err = ErrVisitor
    /\ filter # Nil /\ filterOut
    /\ DOMAIN sectors = Indexes
    /\ filter[1] = {0}
    /\ got.idx = 1
    /\ seen = <<1>>

C5_WitnessGetHidden ==
    /\ pc = "Done" /\ got.op = "Get" /\ got.err = NoErr
    /\ filter # Nil /\ ~filterOut
    /\ got.idx \in DOMAIN sectors /\ got.idx \notin filter[1]
    /\ ~got.found /\ gets = <<>>

====
